---------------------------- MODULE Spec2Model ----------------------------
(***************************************************************************)
(* A model of depstubber's extraction pipeline:                            *)
(*   - the identifier validator (exportedId),                              *)
(*   - the reflection harness (createStubs -> reflectMode -> runInDir ->   *)
(*     run), one step per stage of the code,                               *)
(*   - the usage analysis (autoDetect) in the three variants the sources   *)
(*     hold (auto-detect.go, part_002, part_003).                          *)
(*                                                                         *)
(* Strings are sequences of one-character strings; Ord gives the byte of   *)
(* a character, so that byte-wise comparison (sort.Strings), the Unicode   *)
(* classes of the regular expression and token.IsExported are computed on  *)
(* the characters themselves.                                              *)
(***************************************************************************)
EXTENDS Integers, Sequences, FiniteSets, TLC

\* --------------------------------------------------------------------------
\* Characters and strings
\* --------------------------------------------------------------------------

\* The byte of each character the model uses (ASCII).
Ord(c) ==
  CASE c = "." -> 46 [] c = "/" -> 47 [] c = "0" -> 48
    [] c = "A" -> 65 [] c = "B" -> 66 [] c = "C" -> 67 [] c = "F" -> 70
    [] c = "G" -> 71 [] c = "K" -> 75 [] c = "L" -> 76 [] c = "M" -> 77
    [] c = "R" -> 82 [] c = "S" -> 83 [] c = "T" -> 84 [] c = "V" -> 86
    [] c = "_" -> 95
    [] c = "a" -> 97 [] c = "b" -> 98 [] c = "c" -> 99 [] c = "e" -> 101
    [] c = "f" -> 102 [] c = "h" -> 104 [] c = "m" -> 109 [] c = "p" -> 112
    [] c = "q" -> 113 [] c = "r" -> 114 [] c = "s" -> 115 [] c = "t" -> 116
    [] c = "u" -> 117 [] c = "x" -> 120 [] c = "y" -> 121

\* \p{Lu}: an upper-case letter.
IsLu(c) == Ord(c) \in 65..90

\* \pL: a letter.
IsL(c) == Ord(c) \in (65..90) \cup (97..122)

\* \pN: a number.
IsN(c) == Ord(c) \in 48..57

\* All sequences over S of length at most n.
SeqsUpTo(S, n) == UNION {[1..k -> S] : k \in 0..n}

\* Byte-wise string order, as Go's < on strings: s < t.
RECURSIVE StrLess(_, _)
StrLess(s, t) ==
  IF t = <<>> THEN FALSE
  ELSE IF s = <<>> THEN TRUE
  ELSE IF Ord(s[1]) # Ord(t[1]) THEN Ord(s[1]) < Ord(t[1])
  ELSE StrLess(Tail(s), Tail(t))

\* A list of strings in strictly ascending order (sorted, no duplicates).
StrictlySorted(l) == \A i \in 1..(Len(l) - 1) : StrLess(l[i], l[i + 1])

\* --------------------------------------------------------------------------
\* The identifier validator
\* --------------------------------------------------------------------------

\* (\p{Lu}(\pL|\pN)*) matched from position i: the positions right after
\* each possible match (the star may stop anywhere in the run).
Group1Ends(id, i) ==
  IF i > Len(id) \/ ~IsLu(id[i]) THEN {}
  ELSE {j \in (i + 1)..(Len(id) + 1) :
          \A k \in (i + 1)..(j - 1) : IsL(id[k]) \/ IsN(id[k])}

\* One iteration of (\.\p{Lu}(\pL|\pN)) from position j: the dot, one
\* upper-case letter and exactly one letter or digit.
Group2Step(id, j) ==
  IF /\ j + 2 <= Len(id)
     /\ id[j] = "."
     /\ IsLu(id[j + 1])
     /\ IsL(id[j + 2]) \/ IsN(id[j + 2])
  THEN {j + 3}
  ELSE {}

\* (...)* : zero or more iterations of the second group from the ends J.
RECURSIVE Group2Star(_, _)
Group2Star(id, J) ==
  LET more == UNION {Group2Step(id, j) : j \in J}
  IN  IF more \subseteq J THEN J ELSE Group2Star(id, J \cup more)

\* The expression matches some substring that starts at position i.
MatchAt(id, i) == Group2Star(id, Group1Ends(id, i)) # {}

\* regexp.MatchString is unanchored: it reports whether the string CONTAINS
\* a match.
exportedId(id) == \E i \in 1..Len(id) : MatchAt(id, i)

\* --------------------------------------------------------------------------
\* State
\* --------------------------------------------------------------------------

VARIABLES
  \* validator on its own: one name and exportedId's verdict on it
  vName, vDone, vOk,
  \* one createStubs/reflectMode call
  mode,        \* "auto": names come from autoDetect; "user": from the command line
  packageName, \* "." or the import path
  types,       \* requested type names
  values,      \* requested value names
  execOnly,    \* -exec_only is set
  progOnly,    \* -prog_only is set
  hasGoMod,    \* findModuleRoot(wd) # ""
  pc,          \* position in createStubs / reflectMode / runInDir / run
  loc,         \* sandbox location of the current attempt: "a", "b", "c"; "exec" under -exec_only
  dirs,        \* locations whose sandbox directory exists
  manifests,   \* locations whose sandbox received a copy of go.mod
  tmpFile,     \* run's temporary output file exists
  curErr,      \* error of the current attempt so far ("" = none)
  attempts,    \* finished runInDir calls, in order: [loc, err, removed]
  fx,          \* side effects of this call so far (counters)
  result,      \* what reflectMode returned
  abort,       \* where the process was ended by log.Fatalf ("" = not)
  \* one autoDetect call
  variant,               \* which of the three autoDetect sources runs
  dpc,                   \* position in autoDetect
  vcsResolves,           \* the package paths whose repository root resolves in this run
  rootOfStartPkg,        \* vcs root of the entry package (<<>> = nil)
  pathToTypeNames,       \* package path -> type names
  pathToFuncAndVarNames, \* package path -> value names
  visited,               \* the objects of pk.TypesInfo.Uses ranged over so far
  nUses,                 \* how many uses were ranged over
  \* one FormatDepstubberComment call, one printGoGenerateComments call
  fVariant,          \* which source file's FormatDepstubberComment / printGoGenerateComments runs
  fpc,               \* position: "idle", "format", "collect", "print", "reminder", "done"
  fPath,             \* FormatDepstubberComment: path
  fTypeNames,        \* FormatDepstubberComment: typeNames
  fFuncAndVarNames,  \* FormatDepstubberComment: funcAndVarNames
  comment,           \* FormatDepstubberComment: the returned string
  pTypeNames,        \* printGoGenerateComments: pathToTypeNames
  pFuncAndVarNames,  \* printGoGenerateComments: pathToFuncAndVarNames
  pkgPaths,          \* printGoGenerateComments: the paths still to print
  printed,           \* the lines written to standard output so far
  \* one run of main in a stub-writing mode
  modeAutoDetection, \* -auto is set
  vendor,            \* -vendor is set
  destination,       \* -destination is set (or was set by -vendor)
  copyrightFile,     \* -copyright_file is set
  mpc,               \* position in main / createStubs
  mainPkgPaths,      \* the packages createStubs is still to be called for
  stubPkg,           \* the package of the current createStubs call
  created,           \* the packages whose destination file was created or truncated
  written,           \* the packages whose stub was written to its destination
  exit,              \* how the process ended: "" (running), "ok", "fatal", "panic"
  \* one loadPackage call, or one CombineErrors call
  lpc,               \* position: "idle", "load", "visit", "returned", "combine", "combined"
  pkgErrors,         \* the Errors of each package packages.Visit reaches, in visit order
  nVisited,          \* how many of them the callback has been called for
  errs,              \* loadPackage: the diagnostics collected so far; CombineErrors: its arguments
  loadErr,           \* the error returned (Nil = nil)
  \* one stubModulesTxt call
  vpc,               \* position: "idle", "getwd", "load", "generate", "write", "done"
  wd,                \* the working directory, as the sequence of its components
  goMods,            \* the directories that hold a regular file go.mod
  modRoot,           \* findModuleRoot(wd) (<<>> is the empty string)
  goVersion,         \* the go directive of go.mod: "none", "old" (< 1.14), "new"
  require,           \* the modules of the require lines
  replace,           \* the modules replaced by the replace lines
  readAttempted,     \* ioutil.ReadFile was called on a go.mod path
  vdirMade,          \* os.MkdirAll(vdir) was called
  modulesTxt,        \* the lines written to vendor/modules.txt (Nil: not written)
  vExit,             \* how the call ended: "" (running), "return", "fatal", "panic"
  \* the command line of one directive
  cmdArgs,           \* the arguments after -vendor, as flag.Args() (<<>> before the parse)
  nArgOk,            \* main accepted flag.NArg()
  typeArgs,          \* split(flag.Arg(1))
  valueArgs          \* split(flag.Arg(2))

valVars == <<vName, vDone, vOk>>

reflVars == <<mode, packageName, types, values, execOnly, progOnly, hasGoMod,
              pc, loc, dirs, manifests, tmpFile, curErr, attempts, fx, result,
              abort>>

detVars == <<variant, dpc, vcsResolves, rootOfStartPkg, pathToTypeNames,
             pathToFuncAndVarNames, visited, nUses>>

fmtVars == <<fVariant, fpc, fPath, fTypeNames, fFuncAndVarNames, comment,
             pTypeNames, pFuncAndVarNames, pkgPaths, printed>>

mainVars == <<modeAutoDetection, vendor, destination, copyrightFile, mpc,
              mainPkgPaths, stubPkg, created, written, exit>>

loadVars == <<lpc, pkgErrors, nVisited, errs, loadErr>>

vendVars == <<vpc, wd, goMods, modRoot, goVersion, require, replace, readAttempted,
              vdirMade, modulesTxt, vExit>>

argVars == <<cmdArgs, nArgOk, typeArgs, valueArgs>>

lateVars == <<vendVars, argVars>>

\* The variables of the parts added to the three above.
moreVars == <<fmtVars, mainVars, loadVars, lateVars>>

vars == <<valVars, reflVars, detVars, moreVars>>

IdleFormat ==
  /\ fVariant = "" /\ fpc = "idle" /\ fPath = <<>> /\ fTypeNames = <<>>
  /\ fFuncAndVarNames = <<>> /\ comment = <<>>
  /\ pTypeNames = <<>> /\ pFuncAndVarNames = <<>> /\ pkgPaths = <<>>
  /\ printed = <<>>

IdleMain ==
  /\ modeAutoDetection = FALSE /\ vendor = FALSE /\ destination = FALSE
  /\ copyrightFile = FALSE /\ mpc = "idle" /\ mainPkgPaths = <<>>
  /\ stubPkg = <<>> /\ created = {} /\ written = {} /\ exit = ""

\* A nil error.
Nil == <<>>

IdleLoad ==
  lpc = "idle" /\ pkgErrors = <<>> /\ nVisited = 0 /\ errs = <<>> /\ loadErr = Nil

IdleVendor ==
  /\ vpc = "idle" /\ wd = <<>> /\ goMods = {} /\ modRoot = <<>>
  /\ goVersion = "none" /\ require = <<>> /\ replace = <<>>
  /\ readAttempted = FALSE /\ vdirMade = FALSE /\ modulesTxt = <<>> /\ vExit = ""

IdleArgs == cmdArgs = <<>> /\ nArgOk = FALSE /\ typeArgs = <<>> /\ valueArgs = <<>>

IdleLate == IdleVendor /\ IdleArgs

IdleMore == IdleFormat /\ IdleMain /\ IdleLoad /\ IdleLate

\* --------------------------------------------------------------------------
\* Requests
\* --------------------------------------------------------------------------

\* Longest name the validator is tried on.
MaxNameLen == 4

\* Characters of the names the validator is tried on: an upper-case letter,
\* a lower-case letter, a digit, the dot and the underscore.
NameChars == {"A", "a", "0", ".", "_"}

\* Most names in each of the two lists of a request.
MaxNames == 1

\* The import path of the requested package.
Pkg == <<"x", ".", "c", "/", "p">>

\* Type names a caller may ask for: T, t, tT.
ReqTypeNames == {<<"T">>, <<"t">>, <<"t", "T">>}

\* Value names a caller may ask for: V, _.
ReqValueNames == {<<"V">>, <<"_">>}

\* token.IsExported: the first character is an upper-case letter.
IsExported(name) == Len(name) > 0 /\ IsLu(name[1])

\* split (strings.FieldsFunc on ','): the names of a command-line field are
\* non-empty and hold no comma.  The lists autoDetect hands to createStubs
\* hold only names token.IsExported accepts.
FromMain(m, names) ==
  /\ \A i \in 1..Len(names) : Len(names[i]) > 0
  /\ m = "auto" => /\ \A i \in 1..Len(names) : IsExported(names[i])
                   /\ StrictlySorted(names)

\* --------------------------------------------------------------------------
\* reflectMode: validation
\* --------------------------------------------------------------------------

\* FirstInvalid with the loops stopping after the first name.
FirstInvalid_FirstNameOnly(names) ==
  IF Len(names) > 0 /\ ~exportedId(names[1]) THEN 1 ELSE 0

\* The loops of reflectMode over types, then values: the index of the first
\* name exportedId rejects, 0 when there is none.
FirstInvalid(names) ==
  IF \E i \in 1..Len(names) : ~exportedId(names[i])
  THEN CHOOSE i \in 1..Len(names) :
         /\ ~exportedId(names[i])
         /\ \A k \in 1..(i - 1) : exportedId(names[k])
  ELSE 0

NoName == <<>>

NoResult == [kind |-> "none", at |-> "", stage |-> "", name |-> NoName]

\* fmt.Errorf("%s is not a valid exported name.", t)
InvalidName(n) == [kind |-> "err", at |-> "validate", stage |-> "invalid", name |-> n]

\* A model returned by the run at location l.
Model(l) == [kind |-> "ok", at |-> l, stage |-> "", name |-> NoName]

\* The error of stage s at location l.
Failure(l, s) == [kind |-> "err", at |-> l, stage |-> s, name |-> NoName]

NoFx == [synth |-> FALSE, stdout |-> FALSE, dirsMade |-> 0, tmpFiles |-> 0,
         builds |-> 0, runs |-> <<>>, execs |-> 0, stages |-> <<>>]

\* The stage s of the attempt at location l has been carried out, with or
\* without success: an entry of fx.stages.
Staged(f, l, s, ok) == [f EXCEPT !.stages = Append(@, [loc |-> l, stage |-> s, ok |-> ok])]

\* --------------------------------------------------------------------------
\* createStubs and reflectMode
\* --------------------------------------------------------------------------

Dot == <<".">>

cfgVars == <<mode, types, values, execOnly, progOnly, hasGoMod>>

\* A createStubs call as main makes it, before its first statement.
InitReflect ==
  /\ mode \in {"auto", "user"}
  /\ packageName \in (IF mode = "user" THEN {Dot, Pkg} ELSE {Pkg})
  /\ types \in SeqsUpTo(ReqTypeNames, MaxNames)
  /\ values \in SeqsUpTo(ReqValueNames, MaxNames)
  /\ FromMain(mode, types)
  /\ FromMain(mode, values)
  /\ execOnly \in BOOLEAN
  /\ progOnly \in BOOLEAN
  /\ hasGoMod \in BOOLEAN
  /\ pc = "createStubs"
  /\ loc = ""
  /\ dirs = {}
  /\ manifests = {}
  /\ tmpFile = FALSE
  /\ curErr = ""
  /\ attempts = <<>>
  /\ fx = NoFx
  /\ result = NoResult
  /\ abort = ""

\* createStubs up to its call of reflectMode: "." is resolved to the import
\* path of the working directory; a failure there is a log.Fatalf.
CreateStubsEnter ==
  /\ pc = "createStubs"
  /\ \/ /\ packageName # Dot
        /\ pc' = "validate"
        /\ UNCHANGED <<packageName, abort>>
     \/ /\ packageName = Dot
        /\ packageName' = Pkg
        /\ pc' = "validate"
        /\ UNCHANGED abort
     \/ /\ packageName = Dot
        /\ abort' = "createStubs.packageName"
        /\ pc' = "fatal"
        /\ UNCHANGED packageName
  /\ UNCHANGED <<moreVars, valVars, detVars, cfgVars, loc, dirs, manifests, tmpFile, curErr, attempts, fx, result>>

\* AfterValidation with the -exec_only test lost.
AfterValidation_NoExecOnly(exec) == "writeProgram"

\* Where reflectMode goes once every name passed: run the given binary, or
\* synthesize the probe.
AfterValidation(exec) == IF exec THEN "run_tmp" ELSE "writeProgram"

\* reflectMode, the two validation loops and the -exec_only test.
ReflectValidate ==
  /\ pc = "validate"
  /\ LET names == types \o values
         i == FirstInvalid(names)
     IN  IF i # 0
         THEN /\ result' = InvalidName(names[i])
              /\ pc' = "returned"
              /\ UNCHANGED <<loc, fx>>
         ELSE /\ pc' = AfterValidation(execOnly)
              /\ IF pc' = "run_tmp"
                 THEN /\ loc' = "exec"
                      /\ fx' = [fx EXCEPT !.runs = Append(@, "exec")]
                 ELSE UNCHANGED <<loc, fx>>
              /\ UNCHANGED result
  /\ UNCHANGED <<moreVars, valVars, detVars, cfgVars, packageName, dirs, manifests, tmpFile, curErr, attempts, abort>>

\* WriteProgram with the -prog_only test lost.
WriteProgram_NoProgOnly ==
  /\ pc = "writeProgram"
  /\ fx' = [fx EXCEPT !.synth = TRUE]
  /\ pc' = "getwd"
  /\ UNCHANGED <<moreVars, valVars, detVars, cfgVars, packageName, loc, dirs, manifests, tmpFile, curErr, attempts, result, abort>>

\* writeProgram: the template is executed; its error is returned.
WriteProgram ==
  /\ pc = "writeProgram"
  /\ \/ /\ fx' = [fx EXCEPT !.synth = TRUE]
        /\ pc' = IF progOnly THEN "progOnly" ELSE "getwd"
        /\ UNCHANGED result
     \/ /\ result' = Failure("synth", "template")
        /\ pc' = "returned"
        /\ UNCHANGED fx
  /\ UNCHANGED <<moreVars, valVars, detVars, cfgVars, packageName, loc, dirs, manifests, tmpFile, curErr, attempts, abort>>

\* -prog_only: the program is written to standard output and the process
\* exits with status 0; a write error is returned.
ProgOnly ==
  /\ pc = "progOnly"
  /\ \/ /\ fx' = [fx EXCEPT !.stdout = TRUE]
        /\ pc' = "exit0"
        /\ UNCHANGED result
     \/ /\ result' = Failure("stdout", "write")
        /\ pc' = "returned"
        /\ UNCHANGED fx
  /\ UNCHANGED <<moreVars, valVars, detVars, cfgVars, packageName, loc, dirs, manifests, tmpFile, curErr, attempts, abort>>

\* os.Getwd in reflectMode; the first attempt is in the working directory.
ReflectGetwd ==
  /\ pc = "getwd"
  /\ \/ /\ loc' = "a"
        /\ pc' = "tempdir"
        /\ UNCHANGED abort
     \/ /\ abort' = "reflectMode.getwd"
        /\ pc' = "fatal"
        /\ UNCHANGED loc
  /\ UNCHANGED <<moreVars, valVars, detVars, cfgVars, packageName, dirs, manifests, tmpFile, curErr, attempts, fx, result>>

\* NextStep with the result of the first two attempts ignored.
NextStep_NoEarlyReturn(l, err) ==
  IF l = "a" THEN "import"
  ELSE IF l = "b" THEN "tryC"
  ELSE "return"

\* What reflectMode does with the outcome of runInDir at location l.
NextStep(l, err) ==
  IF err = "" THEN "return"
  ELSE IF l = "a" THEN "import"
  ELSE IF l = "b" THEN "tryC"
  ELSE "return"

\* reflectMode after a runInDir call.
ReflectAfter ==
  /\ pc = "after"
  /\ LET last == attempts[Len(attempts)]
         step == NextStep(last.loc, last.err)
     IN  \/ /\ step = "return"
            /\ result' = IF last.err = "" THEN Model(last.loc)
                         ELSE Failure(last.loc, last.err)
            /\ pc' = "returned"
            /\ UNCHANGED loc
         \/ /\ step = "import"
            /\ pc' = "import"
            /\ UNCHANGED <<loc, result>>
         \/ /\ step = "tryC"
            /\ loc' = "c"
            /\ pc' = "tempdir"
            /\ UNCHANGED result
  /\ UNCHANGED <<moreVars, valVars, detVars, cfgVars, packageName, dirs, manifests, tmpFile, curErr, attempts, fx, abort>>

\* build.Import(importPath, wd, build.FindOnly): the package's directory is
\* the second location; when it is not found the third location is next.
ReflectImport ==
  /\ pc = "import"
  /\ \/ loc' = "b"
     \/ loc' = "c"
  /\ pc' = "tempdir"
  /\ UNCHANGED <<moreVars, valVars, detVars, cfgVars, packageName, dirs, manifests, tmpFile, curErr, attempts, fx, result, abort>>

\* createStubs after reflectMode: an error is a log.Fatalf.
CreateStubsResult ==
  /\ pc = "returned"
  /\ \/ /\ result.kind = "err"
        /\ abort' = "createStubs.loadFailed"
        /\ pc' = "fatal"
     \/ /\ result.kind = "ok"
        /\ pc' = "generate"
        /\ UNCHANGED abort
  /\ UNCHANGED <<moreVars, valVars, detVars, cfgVars, packageName, loc, dirs, manifests, tmpFile, curErr, attempts, fx, result>>

\* --------------------------------------------------------------------------
\* runInDir and run
\* --------------------------------------------------------------------------

\* ioutil.TempDir(dir, "depstubber_reflect_"): the sandbox directory of this
\* attempt; on its error runInDir returns before the removal is deferred.
RunInDirTempDir ==
  /\ pc = "tempdir"
  /\ \/ /\ dirs' = dirs \cup {loc}
        /\ fx' = Staged([fx EXCEPT !.dirsMade = @ + 1], loc, "create", TRUE)
        /\ curErr' = ""
        /\ pc' = "writefile"
        /\ UNCHANGED attempts
     \/ /\ attempts' = Append(attempts, [loc |-> loc, err |-> "tempdir", removed |-> "none"])
        /\ fx' = Staged(fx, loc, "create", FALSE)
        /\ pc' = "after"
        /\ UNCHANGED <<dirs, curErr>>
  /\ UNCHANGED <<moreVars, valVars, detVars, cfgVars, packageName, loc, manifests, tmpFile, result, abort>>

\* ioutil.WriteFile(prog.go).
RunInDirWriteFile ==
  /\ pc = "writefile"
  /\ \/ /\ pc' = "manifest"
        /\ fx' = Staged(fx, loc, "write", TRUE)
        /\ UNCHANGED curErr
     \/ /\ curErr' = "write"
        /\ fx' = Staged(fx, loc, "write", FALSE)
        /\ pc' = "remove"
  /\ UNCHANGED <<moreVars, valVars, detVars, cfgVars, packageName, loc, dirs, manifests, tmpFile, attempts, result, abort>>

\* The block that copies go.mod: os.Getwd, findModuleRoot(wd) and
\* MustCopyFile.  Both failures are log.Fatalf: the process exits at once
\* and no deferred call runs.
RunInDirManifest ==
  /\ pc = "manifest"
  /\ \/ /\ ~hasGoMod
        /\ pc' = "build"
        /\ fx' = Staged(fx, loc, "manifest", TRUE)
        /\ UNCHANGED <<manifests, abort>>
     \/ /\ hasGoMod
        /\ manifests' = manifests \cup {loc}
        /\ pc' = "build"
        /\ fx' = Staged(fx, loc, "manifest", TRUE)
        /\ UNCHANGED abort
     \/ /\ hasGoMod
        /\ abort' = "runInDir.copy"
        /\ pc' = "fatal"
        /\ fx' = Staged(fx, loc, "manifest", FALSE)
        /\ UNCHANGED manifests
     \/ /\ abort' = "runInDir.getwd"
        /\ pc' = "fatal"
        /\ fx' = Staged(fx, loc, "manifest", FALSE)
        /\ UNCHANGED manifests
  /\ UNCHANGED <<moreVars, valVars, detVars, cfgVars, packageName, loc, dirs, tmpFile, curErr, attempts, result>>

\* go build -mod=mod [build_flags] -o prog.bin prog.go, in the sandbox; on
\* success run is called on the binary.
RunInDirBuild ==
  /\ pc = "build"
  /\ \/ /\ fx' = Staged([fx EXCEPT !.builds = @ + 1, !.runs = Append(@, loc)], loc, "build", TRUE)
        /\ pc' = "run_tmp"
        /\ UNCHANGED curErr
     \/ /\ fx' = Staged([fx EXCEPT !.builds = @ + 1], loc, "build", FALSE)
        /\ curErr' = "build"
        /\ pc' = "remove"
  /\ UNCHANGED <<moreVars, valVars, detVars, cfgVars, packageName, loc, dirs, manifests, tmpFile, attempts, result, abort>>

\* run returns err ("" = the decoded model): to reflectMode's caller under
\* -exec_only, else to runInDir, whose deferred removal is next.
RunReturns(err) ==
  IF loc = "exec"
  THEN /\ result' = IF err = "" THEN Model("exec") ELSE Failure("exec", err)
       /\ pc' = "returned"
       /\ UNCHANGED curErr
  ELSE /\ curErr' = err
       /\ pc' = "remove"
       /\ UNCHANGED result

\* run: ioutil.TempFile and f.Close.  Once the file exists its removal is
\* deferred, so a Close error leaves no file.
RunTempFile ==
  /\ pc = "run_tmp"
  /\ \/ /\ tmpFile' = TRUE
        /\ fx' = [fx EXCEPT !.tmpFiles = @ + 1]
        /\ pc' = "run_exec"
        /\ UNCHANGED <<curErr, result>>
     \/ /\ RunReturns("tempfile")
        /\ UNCHANGED <<tmpFile, fx>>
     \/ /\ fx' = [fx EXCEPT !.tmpFiles = @ + 1]
        /\ RunReturns("tempfile")
        /\ UNCHANGED tmpFile
  /\ UNCHANGED <<moreVars, valVars, detVars, cfgVars, packageName, loc, dirs, manifests, attempts, abort>>

\* run: exec.Command(program, "-output", filename).Run().
RunExec ==
  /\ pc = "run_exec"
  /\ \/ /\ pc' = "run_decode"
        /\ fx' = Staged([fx EXCEPT !.execs = @ + 1], loc, "run", TRUE)
        /\ UNCHANGED <<tmpFile, curErr, result>>
     \/ /\ RunReturns("exec")
        /\ fx' = Staged([fx EXCEPT !.execs = @ + 1], loc, "run", FALSE)
        /\ tmpFile' = FALSE
  /\ UNCHANGED <<moreVars, valVars, detVars, cfgVars, packageName, loc, dirs, manifests, attempts, abort>>

\* run: os.Open, gob Decode, f.Close; the temporary file is removed on return.
RunDecode ==
  /\ pc = "run_decode"
  /\ \/ /\ RunReturns("")
        /\ fx' = Staged(fx, loc, "decode", TRUE)
     \/ /\ RunReturns("decode")
        /\ fx' = Staged(fx, loc, "decode", FALSE)
  /\ tmpFile' = FALSE
  /\ UNCHANGED <<moreVars, valVars, detVars, cfgVars, packageName, loc, dirs, manifests, attempts, abort>>

\* RunInDirRemove with the removal lost.
RunInDirRemove_Leaky ==
  /\ pc = "remove"
  /\ attempts' = Append(attempts, [loc |-> loc, err |-> curErr, removed |-> "yes"])
  /\ fx' = Staged(fx, loc, "remove", TRUE)
  /\ pc' = "after"
  /\ UNCHANGED <<moreVars, valVars, detVars, cfgVars, packageName, loc, dirs, manifests, tmpFile, curErr, result, abort>>

\* runInDir's deferred os.RemoveAll(tmpDir); its error is only logged.
RunInDirRemove ==
  /\ pc = "remove"
  /\ \/ /\ dirs' = dirs \ {loc}
        /\ attempts' = Append(attempts, [loc |-> loc, err |-> curErr, removed |-> "yes"])
        /\ fx' = Staged(fx, loc, "remove", TRUE)
     \/ /\ dirs' = dirs
        /\ attempts' = Append(attempts, [loc |-> loc, err |-> curErr, removed |-> "failed"])
        /\ fx' = Staged(fx, loc, "remove", FALSE)
  /\ pc' = "after"
  /\ UNCHANGED <<moreVars, valVars, detVars, cfgVars, packageName, loc, manifests, tmpFile, curErr, result, abort>>

\* --------------------------------------------------------------------------
\* The validator on its own
\* --------------------------------------------------------------------------

InitValidate ==
  /\ vName \in SeqsUpTo(NameChars, MaxNameLen)
  /\ vDone = FALSE
  /\ vOk = FALSE

\* exportedId is applied to the name.
Validate ==
  /\ ~vDone
  /\ vDone' = TRUE
  /\ vOk' = exportedId(vName)
  /\ UNCHANGED <<moreVars, vName, reflVars, detVars>>

\* --------------------------------------------------------------------------
\* Specifications
\* --------------------------------------------------------------------------

\* The variables of a part that is not running.
IdleValidate == vName = <<>> /\ vDone = TRUE /\ vOk = FALSE

IdleReflect ==
  /\ mode = "user" /\ packageName = Pkg /\ types = <<>> /\ values = <<>>
  /\ execOnly = FALSE /\ progOnly = FALSE /\ hasGoMod = FALSE
  /\ pc = "idle" /\ loc = "" /\ dirs = {} /\ manifests = {} /\ tmpFile = FALSE
  /\ curErr = "" /\ attempts = <<>> /\ fx = NoFx /\ result = NoResult /\ abort = ""

IdleDetect ==
  /\ variant = "" /\ dpc = "idle" /\ vcsResolves = {} /\ rootOfStartPkg = <<>>
  /\ pathToTypeNames = <<>> /\ pathToFuncAndVarNames = <<>>
  /\ visited = {} /\ nUses = 0

Init == InitReflect /\ IdleValidate /\ IdleDetect /\ IdleMore

Next ==
  \/ CreateStubsEnter
  \/ ReflectValidate
  \/ WriteProgram
  \/ ProgOnly
  \/ ReflectGetwd
  \/ ReflectAfter
  \/ ReflectImport
  \/ CreateStubsResult
  \/ RunInDirTempDir
  \/ RunInDirWriteFile
  \/ RunInDirManifest
  \/ RunInDirBuild
  \/ RunTempFile
  \/ RunExec
  \/ RunDecode
  \/ RunInDirRemove

\* One createStubs call: the reflection harness.
Spec == Init /\ [][Next]_vars

InitV == InitValidate /\ IdleReflect /\ IdleDetect /\ IdleMore

NextV == Validate

\* The identifier validator applied to one name.
SpecValidate == InitV /\ [][NextV]_vars

\* --------------------------------------------------------------------------
\* Properties of the validator
\* --------------------------------------------------------------------------

\* An upper-case letter followed by letters and digits.
IsUpperRun(s) ==
  /\ Len(s) >= 1
  /\ IsLu(s[1])
  /\ \A k \in 2..Len(s) : IsL(s[k]) \/ IsN(s[k])

\* The export-identifier grammar on the whole name: upper-case-led runs
\* separated by single dots.
RECURSIVE MatchesExportGrammar(_)
MatchesExportGrammar(s) ==
  IF \E i \in 1..Len(s) : s[i] = "."
  THEN LET i == CHOOSE i \in 1..Len(s) :
                  s[i] = "." /\ \A k \in 1..(i - 1) : s[k] # "."
       IN  /\ IsUpperRun(SubSeq(s, 1, i - 1))
           /\ MatchesExportGrammar(SubSeq(s, i + 1, Len(s)))
  ELSE IsUpperRun(s)

\* C1: exportedId(name) is true if and only if the whole name matches the
\* export-identifier grammar (so lowerCase, the empty string and Foo..Bar
\* are rejected).  The code's expression is unanchored: it accepts every
\* name that contains an upper-case letter, such as aA or A..A.
C1_ExportedIdIffGrammar == vDone => (vOk <=> MatchesExportGrammar(vName))

\* --------------------------------------------------------------------------
\* Properties of the reflection harness
\* --------------------------------------------------------------------------

\* The requested names, in the order reflectMode validates them.
RequestNames == types \o values

\* Some requested name fails validation.
SomeInvalid == \E i \in 1..Len(RequestNames) : ~exportedId(RequestNames[i])

\* The position is inside runInDir (run included).
InRunInDir ==
  /\ loc \in {"a", "b", "c"}
  /\ \/ pc \in {"tempdir", "writefile", "manifest", "build", "run_tmp",
                "run_exec", "run_decode", "remove"}
     \/ abort \in {"runInDir.copy", "runInDir.getwd"}

\* reflectMode has returned to createStubs.
Returned == pc \in {"returned", "generate"} \/ abort = "createStubs.loadFailed"

\* The locations of the attempts begun so far, in order.
Started ==
  [i \in 1..Len(attempts) |-> attempts[i].loc]
    \o (IF InRunInDir THEN <<loc>> ELSE <<>>)

\* C2: if any requested name fails validation, reflectMode returns an error
\* naming the first such name, and nothing has happened by then, whatever the
\* path and with or without -exec_only: no probe source, no temporary file,
\* no sandbox directory, no build, no run of a probe binary.
C2_InvalidNameRejectedFirst ==
  SomeInvalid =>
    /\ fx = NoFx /\ dirs = {} /\ manifests = {} /\ ~tmpFile /\ attempts = <<>>
    /\ pc \in {"createStubs", "validate", "returned", "fatal"}
    /\ pc = "returned" =>
         /\ result.kind = "err" /\ result.stage = "invalid"
         /\ \E i \in 1..Len(RequestNames) :
              /\ result.name = RequestNames[i]
              /\ ~exportedId(RequestNames[i])
              /\ \A k \in 1..(i - 1) : exportedId(RequestNames[k])

\* C2's case: under -exec_only a valid type name is followed by an invalid
\* value name, and reflectMode has returned the error.
C2_Witness ==
  /\ pc = "returned" /\ result.stage = "invalid" /\ execOnly
  /\ Len(types) = 1 /\ exportedId(types[1])
  /\ Len(values) = 1 /\ result.name = values[1]

\* C3: the locations are tried in the order a, b, c (b only when the
\* package's directory is found); a later attempt begins only after every
\* earlier one has ended in failure; the first success is returned at once,
\* and a call that went through the attempts returns the last one's outcome.
C3_LocationsInOrder ==
  /\ Started \in {<<>>, <<"a">>, <<"a", "b">>, <<"a", "c">>, <<"a", "b", "c">>}
  /\ \A i \in 1..(Len(Started) - 1) : i <= Len(attempts) /\ attempts[i].err # ""
  /\ (pc = "returned" /\ attempts # <<>>) =>
       LET last == attempts[Len(attempts)]
       IN  /\ last.err = "" \/ last.loc = "c"
           /\ result = IF last.err = "" THEN Model(last.loc)
                       ELSE Failure(last.loc, last.err)

\* C3's case: a and b failed, c succeeded and its model was returned.
C3_Witness ==
  /\ pc = "returned" /\ result = Model("c")
  /\ Len(attempts) = 3 /\ attempts[1].err # "" /\ attempts[2].err # ""

\* C4: every failure of the attempt at a or b is swallowed and the next
\* location is tried; the process is never ended from inside those attempts.
\* The code ends the process with log.Fatalf when the copy of go.mod (or
\* os.Getwd) fails, at any location.
C4_NoAbortAtAOrB ==
  loc \in {"a", "b"} => abort \notin {"runInDir.copy", "runInDir.getwd"}

\* C5: once an attempt has ended, on any exit path, the sandbox directory it
\* created no longer exists.  log.Fatalf skips the deferred removal, and a
\* failed removal is only logged.
C5_SandboxRemovedOnEveryExit ==
  /\ \A i \in 1..Len(attempts) : attempts[i].loc \notin dirs
  /\ pc = "fatal" => dirs = {}

\* The locations whose deferred removal failed.
RemovalFailed == {attempts[i].loc : i \in {k \in 1..Len(attempts) : attempts[k].removed = "failed"}}

ExecOnlyPath == execOnly /\ ~SomeInvalid

\* C7 as stated: on the -exec_only path nothing is synthesized, no sandbox is
\* created, nothing is built, no location is tried, and by the time
\* reflectMode returns the binary has been run exactly once.
C7_ExecOnlyRunsBinaryOnce ==
  ExecOnlyPath =>
    /\ ~fx.synth /\ fx.dirsMade = 0 /\ fx.builds = 0 /\ attempts = <<>>
    /\ pc = "returned" => fx.execs = 1 /\ result.at = "exec"

\* C7, amended: the same, with run called exactly once, on that binary, and
\* its result returned as it is; the binary itself is started at most once,
\* and not at all exactly when run could not create its temporary file.
C7_ExecOnlyCallsRunOnce ==
  ExecOnlyPath =>
    /\ ~fx.synth /\ ~fx.stdout /\ fx.dirsMade = 0 /\ dirs = {} /\ fx.builds = 0
    /\ attempts = <<>> /\ loc \in {"", "exec"}
    /\ fx.execs <= 1
    /\ pc = "returned" =>
         /\ fx.runs = <<"exec">>
         /\ result.at = "exec"
         /\ result.kind = "ok" => fx.execs = 1
         /\ fx.execs = 0 <=> result = Failure("exec", "tempfile")

\* C7's case: the given binary ran once and its model was returned.
C7_Witness ==
  /\ ExecOnlyPath /\ pc = "returned" /\ result = Model("exec") /\ fx.execs = 1

\* --------------------------------------------------------------------------
\* autoDetect: packages and objects of a consumer program
\* --------------------------------------------------------------------------

\* Most uses one walk ranges over.
MaxUses == 3

\* Package paths: f (standard library), e.c/r/a (the entry package),
\* e.c/r/a/s (below the entry package), e.c/r/b (same repository, beside
\* it), y.c/q (another external package); Pkg is x.c/p.
StdPath == <<"f">>
EntryPath == <<"e", ".", "c", "/", "r", "/", "a">>
SubPath == <<"e", ".", "c", "/", "r", "/", "a", "/", "s">>
SiblingPath == <<"e", ".", "c", "/", "r", "/", "b">>
OtherPkg == <<"y", ".", "c", "/", "q">>
NestedPath == <<"e", ".", "c", "/", "r", "/", "a", "/", "m">>
ProjectRoot == <<"e", ".", "c", "/", "r">>

NoPkg == <<>>

\* strings.HasPrefix(s, prefix).
HasPrefix(s, prefix) ==
  Len(prefix) <= Len(s) /\ SubSeq(s, 1, Len(prefix)) = prefix

\* IsStandardImportPath: the first path element holds no dot.
IsStandardImportPath(path) ==
  LET i == IF \E k \in 1..Len(path) : path[k] = "/"
           THEN CHOOSE k \in 1..Len(path) :
                  path[k] = "/" /\ \A j \in 1..(k - 1) : path[j] # "/"
           ELSE Len(path) + 1
      elem == SubSeq(path, 1, i - 1)
  IN  ~\E k \in 1..Len(elem) : elem[k] = "."

\* The repository root vcs.RepoRootForImportPath gives for a path when it
\* resolves.
RepoRoot(path) ==
  IF path \in {EntryPath, SubPath, SiblingPath} THEN ProjectRoot ELSE path

\* The paths of the entry package's repository: whether the root of each
\* resolves (a static rule, or a lookup over the network) differs from run
\* to run.  A path of another repository never has the entry package's
\* root, resolved or not, so those are taken to resolve; NestedPath is one
\* of them, a repository of its own below the entry package's path.
ProjectPaths == {EntryPath, SubPath, SiblingPath}
OtherRepoPaths == {Pkg, OtherPkg, NestedPath}

\* A types.Object as autoDetect reads it: its kind, package path, name,
\* IsField; for a TypeName whether obj.Type() is a *types.Named and that
\* type's own object (another one when the name is an alias); for a Func
\* whether the signature has a receiver and the receiver variable.  The two
\* unexported variables "u" of other packages are what the type checker
\* rules out; the loop has a branch for them.
Object(kind, pkg, name) ==
  [kind |-> kind, pkg |-> pkg, name |-> name, field |-> FALSE,
   named |-> kind = "TypeName", tPkg |-> pkg, tName |-> name,
   recv |-> FALSE, rPkg |-> NoPkg, rName |-> <<>>]

Objects ==
  { Object("Builtin", NoPkg, <<"f">>),
    Object("TypeName", StdPath, <<"T">>),
    Object("Func", EntryPath, <<"h">>),
    Object("PkgName", EntryPath, <<"p">>),
    Object("TypeName", SubPath, <<"S">>),
    Object("Const", SiblingPath, <<"C">>),
    Object("Const", NestedPath, <<"C">>),
    Object("Var", SubPath, <<"u">>),
    Object("Var", Pkg, <<"u">>),
    Object("TypeName", Pkg, <<"T">>),
    Object("TypeName", Pkg, <<"A">>),
    Object("Const", Pkg, <<"C">>),
    Object("Var", Pkg, <<"V">>),
    [Object("Var", Pkg, <<"F">>) EXCEPT !.field = TRUE],
    Object("Func", Pkg, <<"G">>),
    [Object("Func", Pkg, <<"M">>) EXCEPT !.recv = TRUE, !.rPkg = Pkg, !.rName = <<"t">>],
    [Object("TypeName", Pkg, <<"L">>) EXCEPT !.tPkg = StdPath, !.tName = <<"T">>],
    [Object("TypeName", Pkg, <<"K">>) EXCEPT !.tName = <<"u">>],
    [Object("TypeName", Pkg, <<"B">>) EXCEPT !.named = FALSE],
    Object("Func", OtherPkg, <<"G">>) }

\* --------------------------------------------------------------------------
\* autoDetect: the helpers
\* --------------------------------------------------------------------------

\* The elements of a list.
Elems(l) == {l[i] : i \in 1..Len(l)}

\* The loop of DeduplicateStrings: val is appended to result unless seen.
RECURSIVE DedupLoop(_, _)
DedupLoop(slice, acc) ==
  IF slice = <<>> THEN acc
  ELSE IF Head(slice) \in Elems(acc) THEN DedupLoop(Tail(slice), acc)
  ELSE DedupLoop(Tail(slice), Append(acc, Head(slice)))

\* DeduplicateStrings: a list of length at most 1 is returned as it is;
\* otherwise the first occurrence of each value is kept.
DeduplicateStrings(slice) ==
  IF Len(slice) <= 1 THEN slice ELSE DedupLoop(slice, <<>>)

\* removeBlankIdentifier.
RECURSIVE removeBlankIdentifier(_)
removeBlankIdentifier(slice) ==
  IF slice = <<>> THEN <<>>
  ELSE (IF Head(slice) # <<"_">> THEN <<Head(slice)>> ELSE <<>>)
         \o removeBlankIdentifier(Tail(slice))

\* removeUnexported.
RECURSIVE removeUnexported(_)
removeUnexported(slice) ==
  IF slice = <<>> THEN <<>>
  ELSE (IF IsExported(Head(slice)) THEN <<Head(slice)>> ELSE <<>>)
         \o removeUnexported(Tail(slice))

\* sort.Strings: the list in ascending byte-wise order (insertion sort).
RECURSIVE InsertSorted(_, _)
InsertSorted(l, v) ==
  IF l = <<>> THEN <<v>>
  ELSE IF StrLess(v, Head(l)) THEN <<v>> \o l
  ELSE <<Head(l)>> \o InsertSorted(Tail(l), v)

RECURSIVE SortStrings(_)
SortStrings(l) ==
  IF l = <<>> THEN <<>> ELSE InsertSorted(SortStrings(Tail(l)), Head(l))

\* --------------------------------------------------------------------------
\* autoDetect: the loop over pk.TypesInfo.Uses
\* --------------------------------------------------------------------------

Variants == {"auto-detect.go", "part_002", "part_003"}

\* What one iteration does with the object: nothing, a panic, or an append
\* of name to the list of key in the type or the value index.
Skip == [act |-> "skip", key |-> NoPkg, name |-> <<>>]
Panic == [act |-> "panic", key |-> NoPkg, name |-> <<>>]
ToTypes(key, name) == [act |-> "type", key |-> key, name |-> name]
ToValues(key, name) == [act |-> "value", key |-> key, name |-> name]

\* The first three filters: no package, standard library, the entry package.
SkippedByPackage(o) ==
  \/ o.pkg = NoPkg
  \/ IsStandardImportPath(o.pkg)
  \/ o.pkg = EntryPath

\* pathsOverlap: one path is the other's prefix up to a slash.
PathsOverlap(o) ==
  \/ HasPrefix(o.pkg, EntryPath \o <<"/">>)
  \/ HasPrefix(EntryPath, o.pkg \o <<"/">>)

\* The same-project filter of auto-detect.go and part_002: with the entry
\* package's root known, an object whose root resolves to the same root is
\* skipped; in every other case the prefix test decides.
SkippedAsSameProject(root, o, resolving) ==
  IF root # <<>>
  THEN IF o.pkg \in resolving /\ root = RepoRoot(o.pkg) THEN TRUE ELSE PathsOverlap(o)
  ELSE PathsOverlap(o)

\* The type switch of auto-detect.go.
ClassifyAutoDetectGo(o) ==
  CASE o.kind = "TypeName" ->
         IF o.named THEN ToTypes(o.tPkg, o.tName) ELSE Skip
    [] o.kind = "Const" -> ToValues(o.pkg, o.name)
    [] o.kind = "Var" -> IF ~o.field THEN ToValues(o.pkg, o.name) ELSE Skip
    [] o.kind = "Func" ->
         IF o.recv THEN ToValues(o.rPkg, o.rName) ELSE ToValues(o.pkg, o.name)
    [] OTHER -> Panic

\* The type switch of part_002.
ClassifyPart002(o) ==
  CASE o.kind = "TypeName" -> ToTypes(o.pkg, o.name)
    [] o.kind = "Const" -> ToValues(o.pkg, o.name)
    [] o.kind = "Var" -> IF ~o.field THEN ToValues(o.pkg, o.name) ELSE Skip
    [] o.kind = "Func" -> IF ~o.recv THEN ToValues(o.pkg, o.name) ELSE Skip
    [] OTHER -> Panic

\* The type switch of part_003.
ClassifyPart003(o) ==
  CASE o.kind = "TypeName" ->
         IF o.named THEN ToTypes(o.tPkg, o.tName) ELSE Panic
    [] o.kind = "Const" -> ToValues(o.pkg, o.name)
    [] o.kind = "Var" -> ToValues(o.pkg, o.name)
    [] o.kind = "Func" -> ToValues(o.pkg, o.name)
    [] OTHER -> Panic

\* One iteration of the loop, in the order of the code: the package
\* filters, the panic on an unexported object, the same-project filter
\* (absent from part_003), the type switch.
LoopBody(v, root, o, resolving) ==
  IF SkippedByPackage(o) THEN Skip
  ELSE IF ~IsExported(o.name) THEN Panic
  ELSE IF v # "part_003" /\ SkippedAsSameProject(root, o, resolving) THEN Skip
  ELSE IF v = "auto-detect.go" THEN ClassifyAutoDetectGo(o)
  ELSE IF v = "part_002" THEN ClassifyPart002(o)
  ELSE ClassifyPart003(o)

\* m[key] = append(m[key], name).
AppendTo(m, key, name) ==
  IF key \in DOMAIN m
  THEN [m EXCEPT ![key] = Append(@, name)]
  ELSE [k \in DOMAIN m \cup {key} |-> IF k = key THEN <<name>> ELSE m[k]]

\* FinalizeNames without the sort.
FinalizeNames_Unsorted(v, l) ==
  IF v = "part_003"
  THEN DeduplicateStrings(l)
  ELSE removeUnexported(removeBlankIdentifier(DeduplicateStrings(l)))

\* The "Deduplicate and sort" block applied to one list; part_003 has
\* neither removeBlankIdentifier nor removeUnexported.
FinalizeNames(v, l) ==
  IF v = "part_003"
  THEN SortStrings(DeduplicateStrings(l))
  ELSE SortStrings(removeUnexported(removeBlankIdentifier(DeduplicateStrings(l))))

NoIndex == [k \in {} |-> <<>>]

InitDetect ==
  /\ variant \in Variants
  /\ dpc = "load"
  /\ vcsResolves \in {S \cup OtherRepoPaths : S \in SUBSET ProjectPaths}
  /\ variant = "part_003" => ProjectPaths \subseteq vcsResolves
  /\ rootOfStartPkg = <<>>
  /\ pathToTypeNames = NoIndex
  /\ pathToFuncAndVarNames = NoIndex
  /\ visited = {}
  /\ nUses = 0

\* loadPackage and vcs.RepoRootForImportPath for the entry package (whose
\* error is dropped; part_003 does not ask for the root).
DetectLoad ==
  /\ dpc = "load"
  /\ \/ /\ dpc' = "loadError"
        /\ UNCHANGED rootOfStartPkg
     \/ /\ variant = "part_003" \/ EntryPath \notin vcsResolves
        /\ dpc' = "walk"
        /\ rootOfStartPkg' = <<>>
     \/ /\ variant # "part_003" /\ EntryPath \in vcsResolves
        /\ dpc' = "walk"
        /\ rootOfStartPkg' = RepoRoot(EntryPath)
  /\ UNCHANGED <<moreVars, valVars, reflVars, variant, vcsResolves, pathToTypeNames, pathToFuncAndVarNames, visited, nUses>>

\* One iteration of the loop over pk.TypesInfo.Uses, for any object.
DetectVisit ==
  /\ dpc = "walk"
  /\ nUses < MaxUses
  /\ \E o \in Objects :
       LET r == LoopBody(variant, rootOfStartPkg, o, vcsResolves)
       IN  /\ visited' = visited \cup {o}
           /\ dpc' = IF r.act = "panic" THEN "panic" ELSE "walk"
           /\ pathToTypeNames' =
                IF r.act = "type" THEN AppendTo(pathToTypeNames, r.key, r.name)
                ELSE pathToTypeNames
           /\ pathToFuncAndVarNames' =
                IF r.act = "value" THEN AppendTo(pathToFuncAndVarNames, r.key, r.name)
                ELSE pathToFuncAndVarNames
  /\ nUses' = nUses + 1
  /\ UNCHANGED <<moreVars, valVars, reflVars, variant, vcsResolves, rootOfStartPkg>>

\* The end of the loop: the "Deduplicate and sort" block, and the return.
DetectFinalize ==
  /\ dpc = "walk"
  /\ pathToTypeNames' =
       [k \in DOMAIN pathToTypeNames |-> FinalizeNames(variant, pathToTypeNames[k])]
  /\ pathToFuncAndVarNames' =
       [k \in DOMAIN pathToFuncAndVarNames |->
          FinalizeNames(variant, pathToFuncAndVarNames[k])]
  /\ dpc' = "done"
  /\ UNCHANGED <<moreVars, valVars, reflVars, variant, vcsResolves, rootOfStartPkg, visited, nUses>>

InitD == InitDetect /\ IdleValidate /\ IdleReflect /\ IdleMore

NextD ==
  \/ DetectLoad
  \/ DetectVisit
  \/ DetectFinalize

\* One autoDetect call.
SpecDetect == InitD /\ [][NextD]_vars

\* --------------------------------------------------------------------------
\* Properties of autoDetect
\* --------------------------------------------------------------------------

\* The lists of both returned indices.
ReturnedLists ==
  {pathToTypeNames[k] : k \in DOMAIN pathToTypeNames}
    \cup {pathToFuncAndVarNames[k] : k \in DOMAIN pathToFuncAndVarNames}

\* The keys of both returned indices.
ReturnedKeys == DOMAIN pathToTypeNames \cup DOMAIN pathToFuncAndVarNames

\* A list as the usage index promises it: sorted, duplicate-free, without
\* the blank identifier, exported names only.
WellFormedNames(l) ==
  /\ StrictlySorted(l)
  /\ \A i \in 1..Len(l) : l[i] # <<"_">> /\ IsExported(l[i])

\* C8: every name list of both indices autoDetect returns is duplicate-free,
\* sorted, free of the blank identifier and holds exported names only.
\* part_003 has no removeUnexported and records the name of the type an
\* alias stands for, which may be unexported.
C8_ReturnedListsWellFormed ==
  dpc = "done" => \A l \in ReturnedLists : WellFormedNames(l)

\* C8 in the two variants that filter the lists.
C8_WellFormedWithFilters ==
  (dpc = "done" /\ variant # "part_003") => \A l \in ReturnedLists : WellFormedNames(l)

\* Two packages belong to the same project: their repository roots
\* coincide or, when the root of either does not resolve, one path is a
\* slash-delimited prefix of the other.
SameProject(p, q) ==
  IF p \in vcsResolves /\ q \in vcsResolves
  THEN RepoRoot(p) = RepoRoot(q)
  ELSE HasPrefix(p, q \o <<"/">>) \/ HasPrefix(q, p \o <<"/">>)

\* C9: no key of a returned index is a standard-library path, the entry
\* package's path or the path of a package of the entry package's project,
\* aliases included.  auto-detect.go and part_003 file a type name under the
\* package of the type its object denotes, which no filter has seen;
\* part_003 has no same-project filter at all.
C9_NoStdOrSameProjectKey ==
  dpc = "done" =>
    \A k \in ReturnedKeys :
      /\ ~IsStandardImportPath(k)
      /\ k # EntryPath
      /\ ~SameProject(k, EntryPath)

\* C9 in part_002, which files every name under its object's own package.
C9_HoldsInPart002 ==
  (dpc = "done" /\ variant = "part_002") =>
    \A k \in ReturnedKeys :
      /\ ~IsStandardImportPath(k)
      /\ k # EntryPath
      /\ ~SameProject(k, EntryPath)

\* The names recorded anywhere in index m.
RecordedNames(m) == UNION {Elems(m[k]) : k \in DOMAIN m}

\* The objects of the given kinds that survive the skip filters of the
\* variant that runs, among the visited ones.
Surviving(kinds) ==
  {o \in visited :
     /\ o.kind \in kinds
     /\ ~SkippedByPackage(o)
     /\ IsExported(o.name)
     /\ variant # "part_003" => ~SkippedAsSameProject(rootOfStartPkg, o, vcsResolves)}

\* C10: a surviving reference is bucketed by the kind of its object alone: a
\* named type goes to the type index and never to the value index; a
\* constant, a non-field variable or a free function goes to the value index
\* under its own package and never to the type index; a struct field goes
\* to neither.  (Every name of the modelled program belongs to one kind
\* within its package, so a name in an index tells the object that put it
\* there.)  part_003 records fields like any other variable.
C10_BucketedByKind ==
  dpc \in {"walk", "done"} =>
    /\ \A o \in Surviving({"TypeName"}) :
         (o.named /\ o.tPkg = o.pkg /\ o.tName = o.name) =>
           /\ o.pkg \in DOMAIN pathToTypeNames
           /\ o.name \in Elems(pathToTypeNames[o.pkg])
           /\ o.name \notin RecordedNames(pathToFuncAndVarNames)
    /\ \A o \in Surviving({"Const", "Var", "Func"}) :
         (~o.field /\ ~o.recv) =>
           /\ o.pkg \in DOMAIN pathToFuncAndVarNames
           /\ o.name \in Elems(pathToFuncAndVarNames[o.pkg])
           /\ o.name \notin RecordedNames(pathToTypeNames)
    /\ \A o \in Surviving({"Var"}) :
         o.field =>
           /\ o.name \notin RecordedNames(pathToTypeNames)
           /\ o.name \notin RecordedNames(pathToFuncAndVarNames)

\* C10 in the two variants that test IsField.
C10_HoldsWithFieldTest ==
  variant # "part_003" => C10_BucketedByKind

\* --------------------------------------------------------------------------
\* Properties of autoDetect: methods
\* --------------------------------------------------------------------------

\* C11: once autoDetect has returned, every visited reference to a method of
\* an external type that survived the skip filters has left a representative
\* entry (the method's name or the receiver's) in the value index, under the
\* package that declares the receiver.  auto-detect.go appends the name of
\* the receiver VARIABLE, which removeUnexported then drops; part_002 appends
\* nothing for a method.
C11_MethodLeavesValueEntry ==
  dpc = "done" =>
    \A o \in Surviving({"Func"}) :
      o.recv =>
        /\ o.rPkg \in DOMAIN pathToFuncAndVarNames
        /\ Elems(pathToFuncAndVarNames[o.rPkg]) \cap {o.name, o.rName} # {}

\* --------------------------------------------------------------------------
\* FormatDepstubberComment
\* --------------------------------------------------------------------------

\* A string here is a sequence of pieces whose concatenation is the string;
\* a space is always a piece of its own, and so are the two quote characters
\* of the placeholder.
MaxListLen == 3
FmtNames == {<<"A">>, <<"B", "a">>}
FmtPaths == {Pkg, OtherPkg, SiblingPath}
Space == <<" ">>
Placeholder == <<"\"", "\"">>
CommandPrefix == <<"//go:generate", " ", "depstubber", " ", "-vendor">>

\* strings.Join(names, ",").
RECURSIVE JoinComma(_)
JoinComma(names) ==
  IF names = <<>> THEN <<>>
  ELSE IF Len(names) = 1 THEN Head(names)
  ELSE Head(names) \o <<",">> \o JoinComma(Tail(names))

\* strings.TrimSpace.
RECURSIVE TrimLeft(_)
TrimLeft(s) ==
  IF s # <<>> /\ Head(s) = " " THEN TrimLeft(Tail(s)) ELSE s

RECURSIVE TrimRight(_)
TrimRight(s) ==
  IF s # <<>> /\ s[Len(s)] = " " THEN TrimRight(SubSeq(s, 1, Len(s) - 1)) ELSE s

TrimSpace(s) == TrimLeft(TrimRight(s))

\* FormatField without the sort.
FormatField_Unsorted(names, ifEmpty) ==
  IF Len(names) > 0 THEN JoinComma(DeduplicateStrings(names)) ELSE ifEmpty

\* The field a name list is rendered as: deduplicated, sorted and joined
\* when it is not empty, else the given text.
FormatField(names, ifEmpty) ==
  IF Len(names) > 0 THEN JoinComma(SortStrings(DeduplicateStrings(names))) ELSE ifEmpty

\* fmt.Sprintf("//go:generate depstubber -vendor %s %s %s", path, first, second).
Sprintf3(p, first, second) ==
  CommandPrefix \o Space \o p \o Space \o first \o Space \o second

\* FormatDepstubberComment of auto-detect.go and part_002: only the type
\* field has a placeholder, and the result is trimmed.  In part_003 both
\* fields have the placeholder and nothing is trimmed.
FormatDepstubberComment(v, p, typeNames, funcAndVarNames) ==
  IF v = "part_003"
  THEN Sprintf3(p, FormatField(typeNames, Placeholder), FormatField(funcAndVarNames, Placeholder))
  ELSE TrimSpace(Sprintf3(p, FormatField(typeNames, Placeholder), FormatField(funcAndVarNames, <<>>)))

InitFormat ==
  /\ fVariant \in Variants
  /\ fpc = "format"
  /\ fPath \in {Pkg, OtherPkg}
  /\ fTypeNames \in SeqsUpTo(FmtNames, MaxListLen)
  /\ fFuncAndVarNames \in SeqsUpTo(FmtNames, MaxListLen)
  /\ comment = <<>>
  /\ pTypeNames = <<>> /\ pFuncAndVarNames = <<>> /\ pkgPaths = <<>>
  /\ printed = <<>>

\* One call of FormatDepstubberComment.
Format ==
  /\ fpc = "format"
  /\ comment' = FormatDepstubberComment(fVariant, fPath, fTypeNames, fFuncAndVarNames)
  /\ fpc' = "done"
  /\ UNCHANGED <<lateVars, valVars, reflVars, detVars, mainVars, loadVars, fVariant, fPath, fTypeNames,
                 fFuncAndVarNames, pTypeNames, pFuncAndVarNames, pkgPaths, printed>>

\* strings.Fields: the maximal runs without a space, in order.
RECURSIVE FieldsFrom(_, _, _)
FieldsFrom(s, cur, acc) ==
  IF s = <<>> THEN (IF cur = <<>> THEN acc ELSE Append(acc, cur))
  ELSE IF Head(s) = " "
       THEN FieldsFrom(Tail(s), <<>>, IF cur = <<>> THEN acc ELSE Append(acc, cur))
       ELSE FieldsFrom(Tail(s), Append(cur, Head(s)), acc)

Fields(s) == FieldsFrom(s, <<>>, <<>>)

\* The fields of a directive after the three of the command prefix.
ArgFields(line) == SubSeq(Fields(line), Len(Fields(CommandPrefix)) + 1, Len(Fields(line)))

\* The command-line arguments the directive gives the program: its fields
\* after -vendor, the placeholder "" being the empty string.
DirectiveArgs(line) ==
  [i \in 1..Len(ArgFields(line)) |->
     IF ArgFields(line)[i] = Placeholder THEN <<>> ELSE ArgFields(line)[i]]

\* flag.Arg(i): the i-th remaining argument, and "" when there is none.
flagArg(args, i) == IF i < Len(args) THEN args[i + 1] ELSE <<>>

\* split without the cut at the commas.
split_NoSplit(s) == IF s = <<>> THEN <<>> ELSE <<s>>

\* split: strings.FieldsFunc at ',', the maximal runs without a comma.
RECURSIVE splitFrom(_, _, _)
splitFrom(s, cur, acc) ==
  IF s = <<>> THEN (IF cur = <<>> THEN acc ELSE Append(acc, cur))
  ELSE IF Head(s) = ","
       THEN splitFrom(Tail(s), <<>>, IF cur = <<>> THEN acc ELSE Append(acc, cur))
       ELSE splitFrom(Tail(s), Append(cur, Head(s)), acc)

split(s) == splitFrom(s, <<>>, <<>>)

\* main run on the arguments of the directive: the test of flag.NArg() and
\* the two calls of split.
ParseArgs ==
  /\ fpc = "done"
  /\ cmdArgs' = DirectiveArgs(comment)
  /\ nArgOk' = (Len(cmdArgs') = 2 \/ Len(cmdArgs') = 3)
  /\ IF nArgOk'
       THEN /\ typeArgs' = split(flagArg(cmdArgs', 1))
            /\ valueArgs' = split(flagArg(cmdArgs', 2))
       ELSE UNCHANGED <<typeArgs, valueArgs>>
  /\ fpc' = "parsed"
  /\ UNCHANGED <<vendVars, valVars, reflVars, detVars, mainVars, loadVars, fVariant, fPath,
                 fTypeNames, fFuncAndVarNames, comment, pTypeNames, pFuncAndVarNames,
                 pkgPaths, printed>>

InitF == InitFormat /\ IdleValidate /\ IdleReflect /\ IdleDetect /\ IdleMain /\ IdleLoad /\ IdleLate

NextF ==
  \/ Format
  \/ ParseArgs

\* FormatDepstubberComment applied to one path and two name lists.
SpecFormat == InitF /\ [][NextF]_vars

\* --------------------------------------------------------------------------
\* Properties of FormatDepstubberComment
\* --------------------------------------------------------------------------

\* The names of a set in ascending order.
SortedListOf(S) ==
  CHOOSE l \in SeqsUpTo(S, Cardinality(S)) : Elems(l) = S /\ StrictlySorted(l)

\* The directive for a path and two SETS of names: the type field is the
\* comma-join of the sorted type names (the placeholder for no name); the
\* value field is the comma-join of the sorted value names and, for no
\* name, the placeholder in part_003 and no field at all elsewhere.
DirectiveOf(v, p, T, V) ==
  CommandPrefix \o Space \o p
    \o Space \o (IF T = {} THEN Placeholder ELSE JoinComma(SortedListOf(T)))
    \o (IF V # {} THEN Space \o JoinComma(SortedListOf(V))
        ELSE IF v = "part_003" THEN Space \o Placeholder ELSE <<>>)

\* C12: the comment FormatDepstubberComment returns is a single line that
\* depends only on the path and on the sets of type and value names: it is
\* the directive of those sets, with each field the comma-join of the
\* sorted, deduplicated names, and every other pair of lists with the same
\* elements (any order, any duplication) gives the same comment.
C12_FormatDependsOnSets ==
  fpc = "done" =>
    /\ comment = DirectiveOf(fVariant, fPath, Elems(fTypeNames), Elems(fFuncAndVarNames))
    /\ \A i \in 1..Len(comment) : comment[i] # "\n"
    /\ \A t \in SeqsUpTo(FmtNames, MaxListLen), f \in SeqsUpTo(FmtNames, MaxListLen) :
         (Elems(t) = Elems(fTypeNames) /\ Elems(f) = Elems(fFuncAndVarNames)) =>
           FormatDepstubberComment(fVariant, fPath, t, f) = comment

\* types [Ba, A, Ba] and values [Ba] have been rendered as "<prefix> <path> A,Ba Ba".
C12_Witness ==
  /\ fpc = "done"
  /\ fTypeNames = <<<<"B", "a">>, <<"A">>, <<"B", "a">>>>
  /\ fFuncAndVarNames = <<<<"B", "a">>>>
  /\ comment = CommandPrefix \o Space \o fPath \o <<" ", "A", ",", "B", "a", " ", "B", "a">>

\* C13: the comment always has three fields after the command prefix, the
\* path, the type field and the value field, whichever list is empty; an
\* empty type list is rendered as the placeholder "", so a non-empty value
\* list is the third field.  auto-detect.go and part_002 render an empty
\* value list as nothing and trim the line: two fields.
C13_ConstantFieldCount ==
  fpc = "done" =>
    /\ Len(ArgFields(comment)) = 3
    /\ ArgFields(comment)[1] = fPath
    /\ fTypeNames = <<>> => ArgFields(comment)[2] = Placeholder
    /\ fFuncAndVarNames # <<>> =>
         ArgFields(comment)[3] = JoinComma(SortedListOf(Elems(fFuncAndVarNames)))

\* --------------------------------------------------------------------------
\* printGoGenerateComments
\* --------------------------------------------------------------------------

\* The name lists an index holds for a path.
PrintLists == {<<>>, <<<<"A">>>>, <<<<"A">>, <<"B">>>>}

\* The indices: a list for each path of some set of paths.
Indices == UNION {[K -> PrintLists] : K \in SUBSET FmtPaths}

\* The orders a map's keys can be ranged over in.
KeyOrders(m) ==
  {l \in SeqsUpTo(DOMAIN m, Cardinality(DOMAIN m)) :
     Len(l) = Cardinality(DOMAIN m) /\ Elems(l) = DOMAIN m}

\* m[key] of a Go map: nil for a key it does not hold.
Lookup(m, key) == IF key \in DOMAIN m THEN m[key] ELSE <<>>

ReminderLine == <<"//go:generate", " ", "depstubber", " ", "-write_module_txt">>

InitPrint ==
  /\ fVariant \in Variants
  /\ fpc = "collect"
  /\ pTypeNames \in Indices
  /\ pFuncAndVarNames \in Indices
  /\ pkgPaths = <<>>
  /\ printed = <<>>
  /\ fPath = <<>> /\ fTypeNames = <<>> /\ fFuncAndVarNames = <<>> /\ comment = <<>>

\* The keys of both maps are appended in the order range yields them, then
\* deduplicated and sorted.
PrintCollect ==
  /\ fpc = "collect"
  /\ \E kt \in KeyOrders(pTypeNames), kf \in KeyOrders(pFuncAndVarNames) :
       pkgPaths' = SortStrings(DeduplicateStrings(kt \o kf))
  /\ fpc' = "print"
  /\ UNCHANGED <<lateVars, valVars, reflVars, detVars, mainVars, loadVars, fVariant, fPath, fTypeNames,
                 fFuncAndVarNames, comment, pTypeNames, pFuncAndVarNames, printed>>

\* One iteration of the loop over pkgPaths: the comment is formatted and
\* printed.
PrintLine ==
  /\ fpc = "print"
  /\ pkgPaths # <<>>
  /\ fPath' = Head(pkgPaths)
  /\ fTypeNames' = Lookup(pTypeNames, Head(pkgPaths))
  /\ fFuncAndVarNames' = Lookup(pFuncAndVarNames, Head(pkgPaths))
  /\ comment' = FormatDepstubberComment(fVariant, fPath', fTypeNames', fFuncAndVarNames')
  /\ printed' = Append(printed, comment')
  /\ pkgPaths' = Tail(pkgPaths)
  /\ UNCHANGED <<lateVars, valVars, reflVars, detVars, mainVars, loadVars, fVariant, fpc, pTypeNames, pFuncAndVarNames>>

\* After the loop: part_003 prints the -write_module_txt reminder, the two
\* other files return.
PrintEnd ==
  /\ fpc = "print"
  /\ pkgPaths = <<>>
  /\ printed' = IF fVariant = "part_003" THEN Append(printed, ReminderLine) ELSE printed
  /\ fpc' = "done"
  /\ UNCHANGED <<lateVars, valVars, reflVars, detVars, mainVars, loadVars, fVariant, fPath, fTypeNames,
                 fFuncAndVarNames, comment, pTypeNames, pFuncAndVarNames, pkgPaths>>

InitP == InitPrint /\ IdleValidate /\ IdleReflect /\ IdleDetect /\ IdleMain /\ IdleLoad /\ IdleLate

NextP ==
  \/ PrintCollect
  \/ PrintLine
  \/ PrintEnd

\* One call of printGoGenerateComments.
SpecPrint == InitP /\ [][NextP]_vars

\* --------------------------------------------------------------------------
\* Properties of printGoGenerateComments
\* --------------------------------------------------------------------------

\* The paths of both indices.
AllPaths == DOMAIN pTypeNames \cup DOMAIN pFuncAndVarNames

\* C14: once printGoGenerateComments has returned, the lines it printed are
\* exactly the comments of the distinct paths of both indices, one each, in
\* ascending path order, built from the lists the indices hold for the path
\* (the empty list where an index has none), and there is no other line.
\* part_003 ends with one more line, the -write_module_txt reminder.
C14_OneLinePerPathInOrder ==
  fpc = "done" =>
    /\ Len(printed) = Cardinality(AllPaths)
    /\ \A i \in 1..Len(printed) :
         /\ i <= Cardinality(AllPaths)
         /\ printed[i] = FormatDepstubberComment(fVariant, SortedListOf(AllPaths)[i],
                           Lookup(pTypeNames, SortedListOf(AllPaths)[i]),
                           Lookup(pFuncAndVarNames, SortedListOf(AllPaths)[i]))

\* C14 in auto-detect.go and part_002.
C14_HoldsWithoutReminder ==
  fVariant # "part_003" => C14_OneLinePerPathInOrder

\* --------------------------------------------------------------------------
\* Properties of autoDetect: the order of the traversal
\* --------------------------------------------------------------------------

\* What the loop does with each object of a set of uses, whatever the order.
Appends(uses, act) ==
  {r \in {LoopBody(variant, rootOfStartPkg, o, vcsResolves) : o \in uses} : r.act = act}

\* The index a set of uses determines: a key for every package an append of
\* the given act goes to, holding in ascending order the names appended for
\* it that the finalisation of the variant keeps.
IndexOf(uses, act) ==
  [k \in {r.key : r \in Appends(uses, act)} |->
     SortedListOf({r.name : r \in {q \in Appends(uses, act) :
        /\ q.key = k
        /\ variant # "part_003" => (q.name # <<"_">> /\ IsExported(q.name))}})]

\* C15: the two indices autoDetect returns are determined by the SET of
\* uses it ranged over (the answers of the repository-root lookups being
\* those of the run): whatever the order of the visits and however often a
\* use is met, the indices are the ones that set determines.
C15_IndicesDependOnUsesOnly ==
  dpc = "done" =>
    /\ pathToTypeNames = IndexOf(visited, "type")
    /\ pathToFuncAndVarNames = IndexOf(visited, "value")

\* autoDetect has returned the types A and T of one package after MaxUses
\* visits, in either order.
C15_Witness ==
  /\ dpc = "done"
  /\ Pkg \in DOMAIN pathToTypeNames
  /\ pathToTypeNames[Pkg] = <<<<"A">>, <<"T">>>>
  /\ nUses = MaxUses

\* --------------------------------------------------------------------------
\* Properties of autoDetect: the same-project filter
\* --------------------------------------------------------------------------

\* The visited constants of packages the first three filters let through:
\* each is in the value index of its package unless the same-project filter
\* skipped it.
FilteredConsts ==
  {o \in visited : o.kind = "Const" /\ ~SkippedByPackage(o) /\ IsExported(o.name)}

Recorded(o) ==
  /\ o.pkg \in DOMAIN pathToFuncAndVarNames
  /\ o.name \in Elems(pathToFuncAndVarNames[o.pkg])

\* C20: in auto-detect.go and part_002 a reference is skipped as
\* same-project exactly when: both roots resolve and are equal; or the root
\* of the entry package or of the referenced package does not resolve and
\* one path is a '/'-delimited prefix of the other.  A reference whose root
\* resolves and differs from the entry package's resolved root is recorded.
\* The code applies the prefix test to that reference too.
C20_PrefixTestOnlyWithoutRoots ==
  (variant \in {"auto-detect.go", "part_002"} /\ dpc \in {"walk", "done"}) =>
    \A o \in FilteredConsts :
      Recorded(o) <=>
        ~(IF EntryPath \in vcsResolves /\ o.pkg \in vcsResolves
          THEN RepoRoot(o.pkg) = RepoRoot(EntryPath)
          ELSE PathsOverlap(o))

\* C20 for the references whose path does not overlap the entry package's.
C20_HoldsWithoutOverlap ==
  (variant \in {"auto-detect.go", "part_002"} /\ dpc \in {"walk", "done"}) =>
    \A o \in FilteredConsts :
      ~PathsOverlap(o) =>
        (Recorded(o) <=>
           ~(EntryPath \in vcsResolves /\ o.pkg \in vcsResolves
               /\ RepoRoot(o.pkg) = RepoRoot(EntryPath)))

\* --------------------------------------------------------------------------
\* main and createStubs: the stub-writing modes
\* --------------------------------------------------------------------------

MaxPkgs == 2
StubPkgs == {Pkg, OtherPkg}

\* The process ends: log.Fatalf / log.Fatal, or a panic.
Exits(how) == exit' = how /\ mpc' = "exited"

InitMain ==
  /\ modeAutoDetection \in BOOLEAN
  /\ vendor \in BOOLEAN
  /\ destination \in BOOLEAN
  /\ copyrightFile \in BOOLEAN
  /\ mpc = "start"
  /\ mainPkgPaths = <<>>
  /\ stubPkg = <<>>
  /\ created = {}
  /\ written = {}
  /\ exit = ""

\* main up to the calls of createStubs: under -vendor -force the vendor
\* directory is removed (os.Getwd can fail); with -auto, autoDetect gives
\* the packages, whose paths are deduplicated and sorted; else the package
\* is the first of two or three arguments.
MainStart ==
  /\ mpc = "start"
  /\ \/ /\ vendor
        /\ Exits("fatal")
        /\ UNCHANGED mainPkgPaths
     \/ /\ modeAutoDetection
        /\ Exits("fatal")
        /\ UNCHANGED mainPkgPaths
     \/ /\ modeAutoDetection
        /\ \E S \in SUBSET StubPkgs :
             /\ Cardinality(S) <= MaxPkgs
             /\ mainPkgPaths' = SortedListOf(S)
        /\ mpc' = "loop"
        /\ UNCHANGED exit
     \/ /\ ~modeAutoDetection
        /\ Exits("fatal")
        /\ UNCHANGED mainPkgPaths
     \/ /\ ~modeAutoDetection
        /\ \E p \in StubPkgs \cup {Dot} : mainPkgPaths' = <<p>>
        /\ mpc' = "loop"
        /\ UNCHANGED exit
  /\ UNCHANGED <<lateVars, valVars, reflVars, detVars, fmtVars, loadVars, modeAutoDetection,
                 vendor, destination, copyrightFile, stubPkg, created, written>>

\* The next createStubs call.
MainCall ==
  /\ mpc = "loop"
  /\ mainPkgPaths # <<>>
  /\ stubPkg' = Head(mainPkgPaths)
  /\ mainPkgPaths' = Tail(mainPkgPaths)
  /\ mpc' = "createStubs"
  /\ UNCHANGED <<lateVars, valVars, reflVars, detVars, fmtVars, loadVars, modeAutoDetection,
                 vendor, destination, copyrightFile, created, written, exit>>

\* createStubs: "." is resolved and reflectMode is called; every error is
\* a log.Fatalf.
StubsLoad ==
  /\ mpc = "createStubs"
  /\ \/ /\ stubPkg = Dot
        /\ Exits("fatal")
        /\ UNCHANGED stubPkg
     \/ /\ Exits("fatal")
        /\ UNCHANGED stubPkg
     \/ /\ stubPkg' = IF stubPkg = Dot THEN Pkg ELSE stubPkg
        /\ mpc' = "destination"
        /\ UNCHANGED exit
  /\ UNCHANGED <<lateVars, valVars, reflVars, detVars, fmtVars, loadVars, modeAutoDetection,
                 vendor, destination, copyrightFile, mainPkgPaths, created, written>>

\* createStubs: under -vendor the destination becomes the package's stub.go
\* in the vendor directory; a destination is created (truncated when it
\* exists) by os.Create, before anything is generated.
StubsDestination ==
  /\ mpc = "destination"
  /\ \/ /\ vendor
        /\ Exits("fatal")
        /\ UNCHANGED <<destination, created>>
     \/ /\ vendor \/ destination
        /\ destination' = TRUE
        /\ Exits("fatal")
        /\ UNCHANGED created
     \/ /\ vendor \/ destination
        /\ destination' = TRUE
        /\ created' = created \cup {stubPkg}
        /\ mpc' = "generate"
        /\ UNCHANGED exit
     \/ /\ ~vendor /\ ~destination
        /\ mpc' = "generate"
        /\ UNCHANGED <<destination, created, exit>>
  /\ UNCHANGED <<lateVars, valVars, reflVars, detVars, fmtVars, loadVars, modeAutoDetection,
                 vendor, copyrightFile, mainPkgPaths, stubPkg, written>>

\* createStubs: the copyright file is read, the stub is generated and
\* written to the destination (standard output without one).
StubsGenerate ==
  /\ mpc = "generate"
  /\ \/ /\ copyrightFile
        /\ Exits("fatal")
        /\ UNCHANGED written
     \/ /\ Exits("fatal")
        /\ UNCHANGED written
     \/ /\ written' = written \cup {stubPkg}
        /\ mpc' = "licenses"
        /\ UNCHANGED exit
  /\ UNCHANGED <<lateVars, valVars, reflVars, detVars, fmtVars, loadVars, modeAutoDetection,
                 vendor, destination, copyrightFile, mainPkgPaths, stubPkg, created>>

\* createStubs: the license files of licenseDirs are copied; licenseDirs is
\* nil without -auto.  The errors are panics and MustCopyFile's log.Fatalf.
StubsLicenses ==
  /\ mpc = "licenses"
  /\ \/ /\ mpc' = "loop"
        /\ UNCHANGED exit
     \/ /\ modeAutoDetection
        /\ \E how \in {"fatal", "panic"} : Exits(how)
  /\ UNCHANGED <<lateVars, valVars, reflVars, detVars, fmtVars, loadVars, modeAutoDetection,
                 vendor, destination, copyrightFile, mainPkgPaths, stubPkg, created, written>>

\* main after the last createStubs call: stubModulesTxt under -vendor.
MainEnd ==
  /\ mpc = "loop"
  /\ mainPkgPaths = <<>>
  /\ \/ Exits("ok")
     \/ /\ vendor
        /\ Exits("panic")
  /\ UNCHANGED <<lateVars, valVars, reflVars, detVars, fmtVars, loadVars, modeAutoDetection,
                 vendor, destination, copyrightFile, mainPkgPaths, stubPkg, created, written>>

InitM == InitMain /\ IdleValidate /\ IdleReflect /\ IdleDetect /\ IdleFormat /\ IdleLoad /\ IdleLate

NextM ==
  \/ MainStart
  \/ MainCall
  \/ StubsLoad
  \/ StubsDestination
  \/ StubsGenerate
  \/ StubsLicenses
  \/ MainEnd

\* One run of main that writes stubs.
SpecMain == InitM /\ [][NextM]_vars

\* --------------------------------------------------------------------------
\* Properties of main
\* --------------------------------------------------------------------------

\* C16: when the run has ended in failure, it has written no stub output:
\* no destination or vendor stub file was created or truncated and no stub
\* was written, for any package.  os.Create runs before the stub is
\* generated, and with -auto a later package's failure follows the earlier
\* packages' stubs.
C16_NoOutputOnFailure ==
  exit \in {"fatal", "panic"} => (created = {} /\ written = {})

\* --------------------------------------------------------------------------
\* loadPackage and CombineErrors
\* --------------------------------------------------------------------------

MaxVisited == 2
MaxErrs == 2
Diagnostics == {"d1", "d2", "d3"}

\* An error value: Nil, or its message as a sequence of pieces.
Err(msg) == <<msg>>

\* allNil.
allNil(es) == \A i \in 1..Len(es) : es[i] = Nil

\* CombinedErrors.Error: the heading, then a line for every error that is
\* not nil.
RECURSIVE ErrorLines(_)
ErrorLines(es) ==
  IF es = <<>> THEN <<>>
  ELSE (IF Head(es) # Nil THEN <<"\n - ">> \o Head(es) ELSE <<>>) \o ErrorLines(Tail(es))

\* CombinedErrors.Error reporting the first error only.
CombinedErrorsError_FirstOnly(es) ==
  <<"The following errors occurred:">> \o ErrorLines(<<Head(es)>>)

CombinedErrorsError(es) ==
  <<"The following errors occurred:">> \o ErrorLines(es)

\* CombineErrors: nil for no argument or only nil arguments, else a
\* *CombinedErrors holding them all; the value is given here by its message.
CombineErrors(es) ==
  IF Len(es) = 0 \/ allNil(es) THEN Nil ELSE CombinedErrorsError(es)

\* loadPackage after packages.Load succeeded: the Errors of the packages
\* that packages.Visit reaches.  Or CombineErrors with arguments of which
\* any can be nil.
InitLoad ==
  \/ /\ lpc = "visit"
     /\ pkgErrors \in SeqsUpTo(SeqsUpTo({Err(d) : d \in Diagnostics}, MaxErrs), MaxVisited)
     /\ Len(pkgErrors) >= 1
     /\ nVisited = 0
     /\ errs = <<>>
     /\ loadErr = Nil
  \/ /\ lpc = "combine"
     /\ pkgErrors = <<>>
     /\ nVisited = 0
     /\ errs \in SeqsUpTo({Nil} \cup {Err(d) : d \in Diagnostics}, MaxErrs)
     /\ loadErr = Nil

\* The callback of packages.Visit for the next package: each of its Errors
\* is appended to errs.
LoadVisit ==
  /\ lpc = "visit"
  /\ nVisited < Len(pkgErrors)
  /\ errs' = errs \o pkgErrors[nVisited + 1]
  /\ nVisited' = nVisited + 1
  /\ UNCHANGED <<lateVars, valVars, reflVars, detVars, fmtVars, mainVars, lpc, pkgErrors, loadErr>>

\* After the visit: with any diagnostic, the error
\* "error while packages.Load: " + CombineErrors(errs...); else pkgs[0].
LoadReturn ==
  /\ lpc = "visit"
  /\ nVisited = Len(pkgErrors)
  /\ loadErr' = IF Len(errs) > 0
                THEN <<"error while packages.Load: ">> \o CombineErrors(errs)
                ELSE Nil
  /\ lpc' = "returned"
  /\ UNCHANGED <<lateVars, valVars, reflVars, detVars, fmtVars, mainVars, pkgErrors, nVisited, errs>>

\* One call CombineErrors(errs...).
Combine ==
  /\ lpc = "combine"
  /\ loadErr' = CombineErrors(errs)
  /\ lpc' = "combined"
  /\ UNCHANGED <<lateVars, valVars, reflVars, detVars, fmtVars, mainVars, pkgErrors, nVisited, errs>>

InitL == InitLoad /\ IdleValidate /\ IdleReflect /\ IdleDetect /\ IdleFormat /\ IdleMain /\ IdleLate

NextL ==
  \/ LoadVisit
  \/ LoadReturn
  \/ Combine

\* One loadPackage call after packages.Load, or one CombineErrors call.
SpecLoad == InitL /\ [][NextL]_vars

\* --------------------------------------------------------------------------
\* Properties of loadPackage and CombineErrors
\* --------------------------------------------------------------------------

\* The diagnostics of all the visited packages.
AllDiagnostics == UNION {Elems(pkgErrors[i]) : i \in 1..Len(pkgErrors)}

\* C17: when loadPackage has returned, it failed if and only if some
\* visited package has a diagnostic, and then the text of its one error
\* holds the text of every diagnostic of every package; and CombineErrors
\* returns nil exactly when it has no argument or only nil arguments.
C17_EveryDiagnosticReported ==
  /\ lpc = "returned" =>
       /\ loadErr # Nil <=> AllDiagnostics # {}
       /\ \A d \in AllDiagnostics : \E i \in 1..Len(loadErr) : <<loadErr[i]>> = d
  /\ lpc = "combined" =>
       (loadErr = Nil <=> \A i \in 1..Len(errs) : errs[i] = Nil)

\* loadPackage has failed after two packages with different diagnostics,
\* the first not that of the first package visited.
C17_Witness ==
  /\ lpc = "returned"
  /\ Len(pkgErrors) = 2
  /\ pkgErrors[1] = <<Err("d1")>>
  /\ pkgErrors[2] = <<Err("d2"), Err("d3")>>
  /\ loadErr # Nil

\* --------------------------------------------------------------------------
\* Properties of the harness: the stages of an attempt
\* --------------------------------------------------------------------------

\* The stages of a sandbox attempt before its removal, in order.
StageOrder == <<"create", "write", "manifest", "build", "run", "decode">>

\* The entries of the stage log that belong to the attempt at location l.
RECURSIVE StagesAt(_, _)
StagesAt(log, l) ==
  IF log = <<>> THEN <<>>
  ELSE (IF Head(log).loc = l THEN <<Head(log)>> ELSE <<>>) \o StagesAt(Tail(log), l)

\* The same without a final removal.
BeforeRemoval(L) ==
  IF L # <<>> /\ L[Len(L)].stage = "remove" THEN SubSeq(L, 1, Len(L) - 1) ELSE L

\* The attempt at location l is over: runInDir returned, or the process
\* was ended inside it.
AttemptOver(l) ==
  \/ \E i \in 1..Len(attempts) : attempts[i].loc = l
  \/ loc = l /\ abort \in {"runInDir.copy", "runInDir.getwd"}

\* C18: the stages of every sandbox attempt are an initial part of create,
\* write, manifest, build, run, decode, in that order, each after the
\* success of the one before (the binary is run only after this attempt's
\* build succeeded, the output decoded only after the run succeeded, and a
\* failure ends the sequence), followed by the removal alone; and once the
\* attempt is over, the removal of a directory that was created has taken
\* place.  A failed manifest copy ends the process without the removal.
C18_StagesInOrder ==
  \A l \in {"a", "b", "c"} :
    LET L == StagesAt(fx.stages, l)
        B == BeforeRemoval(L)
    IN  /\ Len(B) <= Len(StageOrder)
        /\ \A i \in 1..Len(B) : B[i].stage = StageOrder[i]
        /\ \A i \in 1..(Len(B) - 1) : B[i].ok
        /\ (AttemptOver(l) /\ B # <<>> /\ B[1].ok) => L[Len(L)].stage = "remove"

\* C18 on the paths where runInDir returns.
C18_HoldsWhenRunInDirReturns ==
  abort \notin {"runInDir.copy", "runInDir.getwd"} => C18_StagesInOrder

\* C19: the sandbox of the attempt at location (c), under the OS temporary
\* directory, never receives a copy of go.mod.  runInDir copies the go.mod
\* of the working directory's module whatever directory it was given.
C19_NoManifestAtC ==
  "c" \notin manifests

\* --------------------------------------------------------------------------
\* Properties of autoDetect: the internal errors
\* --------------------------------------------------------------------------

\* The visited objects that no skip filter of auto-detect.go and part_002
\* applies to: the three package filters and the same-project filter.
PastAllFilters ==
  {o \in visited :
     ~SkippedByPackage(o) /\ ~SkippedAsSameProject(rootOfStartPkg, o, vcsResolves)}

\* The declaration kinds the classifier does not recognise.
Unrecognized(o) ==
  \/ o.kind \notin {"TypeName", "Const", "Var", "Func"}
  \/ o.kind = "TypeName" /\ ~o.named

C21_HoldsForThreeFilters ==
  variant \in {"auto-detect.go", "part_002"} =>
    (dpc = "panic" <=>
       \E o \in visited : ~SkippedByPackage(o) /\ ~IsExported(o.name))

\* C22: in auto-detect.go and part_003 every visited reference that is
\* exported, past the filters of the variant and of a kind the classifier
\* does not recognise has ended the walk in the internal error: none is
\* skipped with the detection going on.  auto-detect.go prints "ignoring
\* type" for a type name whose type is not a named type, and goes on.
C22_UnrecognizedKindIsFatal ==
  variant \in {"auto-detect.go", "part_003"} =>
    \A o \in visited :
      (/\ ~SkippedByPackage(o)
       /\ IsExported(o.name)
       /\ variant = "auto-detect.go" => ~SkippedAsSameProject(rootOfStartPkg, o, vcsResolves)
       /\ Unrecognized(o)) => dpc = "panic"

\* C22 in part_003.
C22_HoldsInPart003 ==
  variant = "part_003" => C22_UnrecognizedKindIsFatal

\* --------------------------------------------------------------------------
\* Properties of the harness: -prog_only
\* --------------------------------------------------------------------------

\* Nothing was built or run and no sandbox or temporary file was made.
NothingBuiltOrRun ==
  /\ fx.builds = 0 /\ fx.execs = 0 /\ fx.runs = <<>>
  /\ fx.dirsMade = 0 /\ dirs = {} /\ fx.tmpFiles = 0 /\ attempts = <<>>

----------------------------------------------------------------------------
\* vendor.go: stubModulesTxt.  A directory is the sequence of its
\* components, the file system root being <<"/">>; the empty sequence is the
\* empty string.

MaxDepth == 2

DirNames == <<"a", "b", "c", "d">>

\* The directory at a depth below the root: "/", "/a", "/a/b", ...
DirAt(d) == <<"/">> \o SubSeq(DirNames, 1, d)

WorkingDirs == {DirAt(d) : d \in 0..MaxDepth}

\* The directories from the root down to dir.
Ancestors(dir) == {SubSeq(dir, 1, k) : k \in 1..Len(dir)}

\* filepath.Dir: the parent, and the root for the root.
ParentDir(dir) == IF Len(dir) = 1 THEN dir ELSE SubSeq(dir, 1, Len(dir) - 1)

\* findModuleRoot: the nearest directory from dir upwards that holds a
\* regular file go.mod, and "" when the root is passed without one.
RECURSIVE findModuleRoot(_, _)
findModuleRoot(dir, mods) ==
  IF dir \in mods THEN dir
  ELSE IF ParentDir(dir) = dir THEN <<>>
  ELSE findModuleRoot(ParentDir(dir), mods)

\* The directory that filepath.Join(root, "go.mod") names: with root "" the
\* path is the relative "go.mod", which the process reads in cwd.
GoModDirOf(root, cwd) == IF root = <<>> THEN cwd ELSE root

Mods == {"m", "n"}

\* The require and replace lists of a go.mod: no module twice.
ModLists == {<<>>} \cup {<<m>> : m \in Mods}
              \cup {<<m, n>> : <<m, n>> \in {pr \in Mods \X Mods : pr[1] # pr[2]}}

\* moduleLine(m, {}) and moduleLine(old, new), as the fields of the line.
moduleLine(m, replaced) == IF replaced THEN <<"#", m, "=>", "r">> ELSE <<"#", m>>

\* The buffer after the loop over modFile.Require.
RECURSIVE RequireLines(_)
RequireLines(rs) ==
  IF rs = <<>> THEN <<>>
  ELSE <<moduleLine(Head(rs), FALSE), <<"## explicit">>, <<Head(rs)>>>>
         \o RequireLines(Tail(rs))

\* The lines of the loop over modFile.Replace: those of required modules
\* are skipped.
RECURSIVE ReplaceLines(_, _)
ReplaceLines(rs, generated) ==
  IF rs = <<>> THEN <<>>
  ELSE (IF Head(rs) \in generated THEN <<>> ELSE <<moduleLine(Head(rs), TRUE)>>)
         \o ReplaceLines(Tail(rs), generated)

ModulesTxtBuffer(req, repl) ==
  RequireLines(req) \o ReplaceLines(repl, {req[i] : i \in 1..Len(req)})

InitVendor ==
  /\ vpc = "getwd"
  /\ wd \in WorkingDirs
  /\ goMods \in SUBSET Ancestors(wd)
  /\ modRoot = <<>>
  /\ goVersion \in {"none", "old", "new"}
  /\ require \in ModLists
  /\ replace \in ModLists
  /\ readAttempted = FALSE /\ vdirMade = FALSE /\ modulesTxt = Nil /\ vExit = ""

\* os.Getwd and its error test.
VendorGetwd ==
  /\ vpc = "getwd"
  /\ \E ok \in BOOLEAN :
       IF ok THEN vpc' = "find" /\ vExit' = vExit
       ELSE vpc' = "done" /\ vExit' = "fatal"
  /\ UNCHANGED <<argVars, valVars, reflVars, detVars, fmtVars, mainVars, loadVars,
                 wd, goMods, modRoot, goVersion, require, replace,
                 readAttempted, vdirMade, modulesTxt>>

\* modRoot := findModuleRoot(wd); the test of modRoot has an empty body.
VendorFindRoot ==
  /\ vpc = "find"
  /\ modRoot' = findModuleRoot(wd, goMods)
  /\ vpc' = "load"
  /\ UNCHANGED <<argVars, valVars, reflVars, detVars, fmtVars, mainVars, loadVars,
                 wd, goMods, goVersion, require, replace,
                 readAttempted, vdirMade, modulesTxt, vExit>>

\* loadModFile(filepath.Join(modRoot, "go.mod")): ReadFile, then Parse.
VendorLoadModFile ==
  /\ vpc = "load"
  /\ readAttempted' = TRUE
  /\ IF GoModDirOf(modRoot, wd) \in goMods
       THEN \E parsed \in BOOLEAN :
              IF parsed THEN vpc' = "generate" /\ vExit' = vExit
              ELSE vpc' = "done" /\ vExit' = "panic"
       ELSE vpc' = "done" /\ vExit' = "panic"
  /\ UNCHANGED <<argVars, valVars, reflVars, detVars, fmtVars, mainVars, loadVars,
                 wd, goMods, modRoot, goVersion, require, replace,
                 vdirMade, modulesTxt>>

\* The test of the Go version, the buffer, and os.MkdirAll(vdir).
VendorGenerate ==
  /\ vpc = "generate"
  /\ IF goVersion # "new" \/ ModulesTxtBuffer(require, replace) = <<>>
       THEN vpc' = "done" /\ vExit' = "return" /\ vdirMade' = vdirMade
       ELSE \E ok \in BOOLEAN :
              IF ok THEN vpc' = "write" /\ vExit' = vExit /\ vdirMade' = TRUE
              ELSE vpc' = "done" /\ vExit' = "fatal" /\ vdirMade' = vdirMade
  /\ UNCHANGED <<argVars, valVars, reflVars, detVars, fmtVars, mainVars, loadVars,
                 wd, goMods, modRoot, goVersion, require, replace,
                 readAttempted, modulesTxt>>

\* ioutil.WriteFile(vdir/modules.txt).
VendorWrite ==
  /\ vpc = "write"
  /\ \E ok \in BOOLEAN :
       IF ok THEN modulesTxt' = ModulesTxtBuffer(require, replace) /\ vExit' = "return"
       ELSE modulesTxt' = modulesTxt /\ vExit' = "fatal"
  /\ vpc' = "done"
  /\ UNCHANGED <<argVars, valVars, reflVars, detVars, fmtVars, mainVars, loadVars,
                 wd, goMods, modRoot, goVersion, require, replace,
                 readAttempted, vdirMade>>

InitVd ==
  /\ InitVendor /\ IdleValidate /\ IdleReflect /\ IdleDetect
  /\ IdleFormat /\ IdleMain /\ IdleLoad /\ IdleArgs

NextVendor ==
  \/ VendorGetwd
  \/ VendorFindRoot
  \/ VendorLoadModFile
  \/ VendorGenerate
  \/ VendorWrite

SpecVendor == InitVd /\ [][NextVendor]_vars

----------------------------------------------------------------------------
\* Properties of stubModulesTxt.

\* C24: when no go.mod exists in the working directory or any of its
\* ancestors, stubModulesTxt does nothing: it reads no manifest, creates no
\* vendor directory, writes no modules.txt and does not fail.
RootSearched ==
  vpc \in {"load", "generate", "write"} \/ (vpc = "done" /\ readAttempted)

C24_NothingWithoutGoMod ==
  (RootSearched /\ goMods = {} /\ modRoot = <<>>) =>
    /\ ~readAttempted /\ ~vdirMade /\ modulesTxt = Nil
    /\ vExit \notin {"fatal", "panic"}

\* The parts of C24 that hold: no vendor directory and no modules.txt.
C24_NothingWrittenWithoutGoMod ==
  (vpc # "idle" /\ goMods = {}) => (~vdirMade /\ modulesTxt = Nil)

\* With a go.mod in an ancestor, the walk finds the nearest one and the
\* file written is the buffer of its require and replace lines.
C24_NearestGoModIsUsed ==
  /\ (RootSearched /\ goMods # {}) =>
       /\ modRoot \in goMods
       /\ \A d \in goMods : Len(d) <= Len(modRoot)
  /\ modulesTxt # Nil =>
       /\ goVersion = "new" /\ vdirMade
       /\ modulesTxt = ModulesTxtBuffer(require, replace)

----------------------------------------------------------------------------
\* Properties of the directive read back as a command line.

\* C25: round trip between the formatter and the command line: the fields
\* of the directive after -vendor, read as arguments (the placeholder "" and
\* a missing field are the empty string) and split at the commas, are
\* exactly the sorted, deduplicated type names and value names that were
\* formatted; the first argument is the path and main accepts the argument
\* count (two or three).
C25_RoundTrip ==
  fpc = "parsed" =>
    /\ nArgOk /\ Len(cmdArgs) \in {2, 3}
    /\ flagArg(cmdArgs, 0) = fPath
    /\ typeArgs = SortedListOf(Elems(fTypeNames))
    /\ valueArgs = SortedListOf(Elems(fFuncAndVarNames))

\* types [Ba, A, Ba] and no values, formatted by auto-detect.go as
\* "<prefix> <path> A,Ba", have been read back as two arguments.
C25_Witness ==
  /\ fpc = "parsed" /\ fVariant = "auto-detect.go"
  /\ fTypeNames = <<<<"B", "a">>, <<"A">>, <<"B", "a">>>>
  /\ fFuncAndVarNames = <<>>
  /\ Len(cmdArgs) = 2
  /\ typeArgs = <<<<"A">>, <<"B", "a">>>> /\ valueArgs = <<>>

\* No types and values [Ba, A]: the placeholder is read back as no type.
C25_WitnessPlaceholder ==
  /\ fpc = "parsed" /\ fTypeNames = <<>>
  /\ fFuncAndVarNames = <<<<"B", "a">>, <<"A">>>>
  /\ cmdArgs = <<fPath, <<>>, <<"A", ",", "B", "a">>>>
  /\ typeArgs = <<>> /\ valueArgs = <<<<"A">>, <<"B", "a">>>>

====
